---- MODULE Spec2Model ----
(***************************************************************************)
(* A model of felafax/trainer_engine/trainer.py: the construction of a     *)
(* Trainer, the control flow of Trainer.train() with its collaborators     *)
(* (data source, training step, checkpointer, export), and the masked      *)
(* cross-entropy loss and accuracy of _cross_entropy_loss_and_accuracy.    *)
(*                                                                         *)
(* Python's None and an unbound local are the empty sequence <<>>, a       *)
(* present value v is <<v>>.                                               *)
(***************************************************************************)
EXTENDS Integers, Sequences, FiniteSets, TLC

\* ---------------------------------------------------------------- bounds
MaxBatches == 3     \* the data source yields 0..MaxBatches batches
MaxCap == 3         \* num_steps ranges over None and -MaxCap..MaxCap
MaxEpochs == 2      \* num_epochs ranges over 1..MaxEpochs
MaxTpus == 8        \* num_tpus ranges over 1..MaxTpus
BatchSize == 2      \* rows of a batch given to the loss function
SeqLen == 2         \* positions of a row

VARIABLES
    trainer_config,   \* TrainerConfig: model_name, num_epochs, num_steps, num_tpus
    mesh_arg,         \* the mesh argument of Trainer.__init__: <<>> or <<shape>>
    checkpointer,     \* the checkpointer argument: TRUE when one is configured
    train_dataloader, \* the data source: the sequence of its batches
    pc,               \* where the program is: constructor, the lines of train()
    error,            \* the exception that left __init__ or train(), "" if none
    self_mesh,        \* Trainer.mesh: <<>> before construction, then <<shape>>
    load_calls,       \* the number of calls of load_model
    it,               \* position of the iterator of enumerate(train_dataloader)
    step,             \* the local `step` of train(): <<>> while unbound
    max_steps,        \* the local `max_steps`: <<>> is float("inf")
    batch,            \* the local `batch`: <<>> while unbound
    prev_step,        \* the local `prev_step`
    trace,            \* the calls made to collaborators and print, in order
    logits,           \* loss function input: logits[b][t][v]
    tokens,           \* loss function input: tokens[b][t]
    mask,             \* loss function input: mask[b][t], <<>> for None
    result            \* what _cross_entropy_loss_and_accuracy returned, <<>> before

trainerVars == <<trainer_config, mesh_arg, checkpointer, train_dataloader, pc,
                 error, self_mesh, load_calls, it, step, max_steps, batch,
                 prev_step, trace>>
lossVars == <<logits, tokens, mask, result>>
vars == <<trainer_config, mesh_arg, checkpointer, train_dataloader, pc,
          error, self_mesh, load_calls, it, step, max_steps, batch,
          prev_step, trace, logits, tokens, mask, result>>

\* ------------------------------------------------------- TrainerConfig
DefaultModelName == "meta-llama/Llama-3.2-1B"

ModelNames == {"", DefaultModelName}

NumStepsValues == {<<>>} \cup {<<n>> : n \in (0 - MaxCap)..MaxCap}

TrainerConfig ==
    [model_name : ModelNames,
     num_epochs : 1..MaxEpochs,
     num_steps  : NumStepsValues,
     num_tpus   : 1..MaxTpus]

\* get_mesh without its else branch: every count gets a mesh.
get_mesh_any(num_tpus) ==
    IF num_tpus = 4 THEN [raised |-> FALSE, shape |-> <<1, 2, 2>>]
    ELSE [raised |-> FALSE, shape |-> <<2, 2, 2>>]

\* ------------------------------------------------------------ get_mesh
\* get_mesh(num_tpus): the mesh shape, or ValueError for a count other than
\* 4 or 8.
get_mesh(num_tpus) ==
    IF num_tpus = 4 THEN [raised |-> FALSE, shape |-> <<1, 2, 2>>]
    ELSE IF num_tpus = 8 THEN [raised |-> FALSE, shape |-> <<2, 2, 2>>]
    ELSE [raised |-> TRUE, shape |-> <<0, 0, 0>>]

CallerMesh == <<1, 1, 1>>

\* A collaborator call or a print, as recorded in trace.
Event(op, arg, b, ok) == [op |-> op, arg |-> arg, batch |-> b, ok |-> ok]

\* ------------------------------------------------------ Trainer.__init__
\* The whole constructor: the assertion on model_name, the mesh (the
\* caller's, else get_mesh), load_model (which may raise), the optimizer.
Construct ==
    /\ pc = "new"
    /\ IF trainer_config.model_name = ""
       THEN /\ pc' = "init_raised"
            /\ error' = "AssertionError"
            /\ UNCHANGED <<self_mesh, load_calls>>
       ELSE IF mesh_arg = <<>> /\ get_mesh(trainer_config.num_tpus).raised
       THEN /\ pc' = "init_raised"
            /\ error' = "ValueError"
            /\ UNCHANGED <<self_mesh, load_calls>>
       ELSE /\ self_mesh' = IF mesh_arg # <<>> THEN mesh_arg
                            ELSE <<get_mesh(trainer_config.num_tpus).shape>>
            /\ load_calls' = load_calls + 1
            /\ \/ /\ pc' = "constructed"
                  /\ UNCHANGED error
               \/ /\ pc' = "init_raised"
                  /\ error' = "load_model"
    /\ UNCHANGED <<trainer_config, mesh_arg, checkpointer, train_dataloader,
                   it, step, max_steps, batch, prev_step, trace>>
    /\ UNCHANGED lossVars

\* --------------------------------------------------------- Trainer.train
\* What train() leaves alone: the constructor's arguments and results.
constructed == <<trainer_config, mesh_arg, checkpointer, train_dataloader,
                 self_mesh, load_calls>>

\* max_steps = self.trainer_config.num_steps or float("inf"): None and 0 are
\* falsy, every other integer is kept as it is.
MaxStepsOf(num_steps) ==
    IF num_steps = <<>> \/ num_steps = <<0>> THEN <<>> ELSE num_steps

\* The cap test written with > for >=: one step too many.
StepPastCap(s, m) == m # <<>> /\ s > m[1]

\* step >= max_steps, where max_steps may be float("inf").
StepReachedCap(s, m) == m # <<>> /\ s >= m[1]

\* A handler that catches the exception and lets the statement run again.
RaiseCaught(op, arg, b) ==
    /\ trace' = Append(trace, Event(op, arg, b, FALSE))
    /\ UNCHANGED <<pc, error>>

\* A collaborator raised: the exception leaves train(), nothing catches it.
Raise(op, arg, b) ==
    /\ trace' = Append(trace, Event(op, arg, b, FALSE))
    /\ pc' = "raised"
    /\ error' = op

\* Lines 183-189: the locals before the loop.
TrainBegin ==
    /\ pc = "constructed"
    /\ max_steps' = MaxStepsOf(trainer_config.num_steps)
    /\ prev_step' = 0
    /\ pc' = "for"
    /\ UNCHANGED <<error, it, step, batch, trace>>
    /\ UNCHANGED constructed
    /\ UNCHANGED lossVars

\* Line 191: enumerate(self.train_dataloader) is asked for the next pair.
\* It binds step and batch, or the source is exhausted and the loop ends,
\* or the source raises.
ForNext ==
    /\ pc = "for"
    /\ \/ /\ it < Len(train_dataloader)
          /\ it' = it + 1
          /\ step' = <<it>>
          /\ batch' = <<train_dataloader[it + 1]>>
          /\ trace' = Append(trace, Event("next_batch", it, train_dataloader[it + 1], TRUE))
          /\ pc' = "cap"
          /\ UNCHANGED error
       \/ /\ it >= Len(train_dataloader)
          /\ pc' = "final"
          /\ UNCHANGED <<error, it, step, batch, trace>>
       \/ /\ Raise("next_batch", it, 0)
          /\ UNCHANGED <<it, step, batch>>
    /\ UNCHANGED <<max_steps, prev_step>>
    /\ UNCHANGED constructed
    /\ UNCHANGED lossVars

\* Lines 192-193: if step >= max_steps: break.
CapCheck ==
    /\ pc = "cap"
    /\ pc' = IF StepReachedCap(step[1], max_steps) THEN "final" ELSE "print"
    /\ UNCHANGED <<error, it, step, max_steps, batch, prev_step, trace>>
    /\ UNCHANGED constructed
    /\ UNCHANGED lossVars

\* Lines 195-199: if step: print the metrics kept from the previous step.
PrintPrev ==
    /\ pc = "print"
    /\ trace' = IF step[1] # 0
                THEN Append(trace, Event("print", prev_step, 0, TRUE))
                ELSE trace
    /\ pc' = "training_step"
    /\ UNCHANGED <<error, it, step, max_steps, batch, prev_step>>
    /\ UNCHANGED constructed
    /\ UNCHANGED lossVars

\* Lines 201-217: the batch is preprocessed and placed, training_step is
\* called with it, and its metrics are kept in prev_step, prev_loss,
\* prev_accuracy.
TrainingStep ==
    /\ pc = "training_step"
    /\ \/ /\ trace' = Append(trace, Event("training_step", step[1] + 1, batch[1], TRUE))
          /\ prev_step' = step[1] + 1
          /\ pc' = "save"
          /\ UNCHANGED error
       \/ /\ Raise("training_step", step[1] + 1, batch[1])
          /\ UNCHANGED prev_step
    /\ UNCHANGED <<it, step, max_steps, batch>>
    /\ UNCHANGED constructed
    /\ UNCHANGED lossVars

\* Lines 219-224: if self.checkpointer: save_checkpoint(step=step + 1).
SaveCheckpoint ==
    /\ pc = "save"
    /\ IF checkpointer
       THEN \/ /\ trace' = Append(trace, Event("save_checkpoint", step[1] + 1, 0, TRUE))
               /\ pc' = "for"
               /\ UNCHANGED error
            \/ Raise("save_checkpoint", step[1] + 1, 0)
       ELSE /\ pc' = "for"
            /\ UNCHANGED <<error, trace>>
    /\ UNCHANGED <<it, step, max_steps, batch, prev_step>>
    /\ UNCHANGED constructed
    /\ UNCHANGED lossVars

\* The final checkpoint without the barrier: the export follows the save.
FinalCheckpointNoWait ==
    /\ pc = "final"
    /\ IF ~checkpointer
       THEN /\ pc' = "export"
            /\ UNCHANGED <<error, trace>>
       ELSE IF step = <<>>
       THEN /\ pc' = "raised"
            /\ error' = "UnboundLocalError"
            /\ UNCHANGED trace
       ELSE /\ trace' = Append(trace, Event("save_checkpoint", step[1] + 1, 0, TRUE))
            /\ pc' = "export"
            /\ UNCHANGED error
    /\ UNCHANGED <<it, step, max_steps, batch, prev_step>>
    /\ UNCHANGED <<trainer_config, mesh_arg, checkpointer, train_dataloader,
                   self_mesh, load_calls>>
    /\ UNCHANGED <<logits, tokens, mask, result>>

\* Lines 226-232: after the loop, if self.checkpointer:
\* save_checkpoint(step=step + 1). The argument reads the loop variable: when
\* the loop never bound it, evaluating step + 1 raises UnboundLocalError
\* before save_checkpoint is called.
FinalCheckpoint ==
    /\ pc = "final"
    /\ IF ~checkpointer
       THEN /\ pc' = "export"
            /\ UNCHANGED <<error, trace>>
       ELSE IF step = <<>>
       THEN /\ pc' = "raised"
            /\ error' = "UnboundLocalError"
            /\ UNCHANGED trace
       ELSE \/ /\ trace' = Append(trace, Event("save_checkpoint", step[1] + 1, 0, TRUE))
               /\ pc' = "wait"
               /\ UNCHANGED error
            \/ Raise("save_checkpoint", step[1] + 1, 0)
    /\ UNCHANGED <<it, step, max_steps, batch, prev_step>>
    /\ UNCHANGED constructed
    /\ UNCHANGED lossVars

\* Lines 233-234: self.checkpointer.wait_until_finished().
WaitUntilFinished ==
    /\ pc = "wait"
    /\ \/ /\ trace' = Append(trace, Event("wait_until_finished", 0, 0, TRUE))
          /\ pc' = "export"
          /\ UNCHANGED error
       \/ Raise("wait_until_finished", 0, 0)
    /\ UNCHANGED <<it, step, max_steps, batch, prev_step>>
    /\ UNCHANGED constructed
    /\ UNCHANGED lossVars

\* Lines 236-248: the model is recombined and save_model_to_hf is called.
Export ==
    /\ pc = "export"
    /\ \/ /\ trace' = Append(trace, Event("save_model_to_hf", 0, 0, TRUE))
          /\ pc' = "done"
          /\ UNCHANGED error
       \/ Raise("save_model_to_hf", 0, 0)
    /\ UNCHANGED <<it, step, max_steps, batch, prev_step>>
    /\ UNCHANGED constructed
    /\ UNCHANGED lossVars

\* ------------------------------------ _cross_entropy_loss_and_accuracy
\* Arithmetic. A float is a record: kind "num" with the exact value
\* fin + big * 10^10, or kind "nan", "inf", "-inf". Log-probabilities are
\* fixed-point integers in units of 1/1000; a quotient by a row's valid
\* length n is kept exact by carrying it in units of 1/RowScale, where every
\* n in 1..SeqLen divides RowScale; a quotient by the floor 1e-10 is carried
\* in `big`.
RECURSIVE Fact(_)
Fact(n) == IF n <= 1 THEN 1 ELSE n * Fact(n - 1)

RowScale == Fact(SeqLen)

RECURSIVE SumSeq(_)
SumSeq(q) == IF q = <<>> THEN 0 ELSE Head(q) + SumSeq(Tail(q))

Num(f, g) == [kind |-> "num", fin |-> f, big |-> g]
Special(k) == [kind |-> k, fin |-> 0, big |-> 0]

\* A length: units + eps * 1e-10.
Length(u, e) == [units |-> u, eps |-> e]

\* The floor 1e-10 of line 66.
Floor == Length(0, 1)

\* jnp.maximum dropped: the sum is used as it is.
MaximumNoFloor(a, b) == a

\* jnp.maximum on two lengths.
Maximum(a, b) ==
    IF a.units > b.units \/ (a.units = b.units /\ a.eps >= b.eps) THEN a ELSE b

\* x / n in floats: x / 0 is nan for x = 0 and an infinity otherwise.
Divide(x, n) ==
    IF n.units > 0 THEN Num((x * RowScale) \div n.units, 0)
    ELSE IF n.eps > 0 THEN Num(0, x \div n.eps)
    ELSE IF x = 0 THEN Special("nan")
    ELSE IF x > 0 THEN Special("inf") ELSE Special("-inf")

Negate(a) ==
    IF a.kind = "num" THEN Num(0 - a.fin, 0 - a.big)
    ELSE IF a.kind = "inf" THEN Special("-inf")
    ELSE IF a.kind = "-inf" THEN Special("inf")
    ELSE a

Add(a, b) ==
    IF a.kind = "nan" \/ b.kind = "nan" THEN Special("nan")
    ELSE IF a.kind = "num" /\ b.kind = "num" THEN Num(a.fin + b.fin, a.big + b.big)
    ELSE IF a.kind = "num" THEN b
    ELSE IF b.kind = "num" THEN a
    ELSE IF a.kind = b.kind THEN a
    ELSE Special("nan")

RECURSIVE SumNum(_)
SumNum(q) == IF q = <<>> THEN Num(0, 0) ELSE Add(Head(q), SumNum(Tail(q)))

\* jnp.mean over the batch axis. The mean of n terms is carried as their sum,
\* in units 1/n of the terms' unit.
Mean(q) == SumNum(q)

\* Line 62-64: an absent mask is all ones.
MaskOrOnes(m, toks) ==
    IF m = <<>> THEN [b \in 1..Len(toks) |-> [t \in 1..Len(toks[b]) |-> 1]] ELSE m

\* Line 66: jnp.maximum(jnp.sum(mask, axis=-1), 1e-10), for one row.
valid_text_length(maskRow) == Maximum(Length(SumSeq(maskRow), 0), Floor)

\* jax.nn.log_softmax over a vocabulary of two, read at token v, in 1/1000:
\* -log(1 + exp(-(l[v] - l[other]))), rounded, for logits that differ by at most 1.
log_softmax(vec, v) ==
    LET d == vec[v + 1] - vec[(1 - v) + 1]
    IN  IF d = 0 THEN -693 ELSE IF d = 1 THEN -313 ELSE -1313

\* jnp.argmax over the vocabulary axis: the first index of the maximum.
argmax(vec) == IF vec[1] >= vec[2] THEN 0 ELSE 1

\* Lines 69-77: the log-probability of each target token, 0.0 where the
\* mask is not positive.
token_log_prob(logitsRow, tokensRow, maskRow) ==
    [t \in 1..Len(tokensRow) |->
        IF maskRow[t] > 0 THEN log_softmax(logitsRow[t], tokensRow[t]) ELSE 0]

\* Line 77 without the jnp.where: masked positions keep their log-probability.
token_log_prob_unmasked(logitsRow, tokensRow, maskRow) ==
    [t \in 1..Len(tokensRow) |-> log_softmax(logitsRow[t], tokensRow[t])]

\* Lines 79-81: 1 where the mask is positive and the prediction is the
\* target, else 0.
correct(logitsRow, tokensRow, maskRow) ==
    [t \in 1..Len(tokensRow) |->
        IF maskRow[t] > 0 /\ argmax(logitsRow[t]) = tokensRow[t] THEN 1 ELSE 0]

\* The per-sequence term of line 78.
RowLossTerm(logitsRow, tokensRow, maskRow) ==
    Divide(SumSeq(token_log_prob(logitsRow, tokensRow, maskRow)),
           valid_text_length(maskRow))

\* The per-sequence term of line 82, in units of 1/1000 like the loss.
RowAccuracyTerm(logitsRow, tokensRow, maskRow) ==
    Divide(1000 * SumSeq(correct(logitsRow, tokensRow, maskRow)),
           valid_text_length(maskRow))

\* Lines 61-83.
cross_entropy_loss_and_accuracy(lg, toks, m) ==
    LET mk == MaskOrOnes(m, toks)
        rows == 1..Len(toks)
    IN  [loss |-> Negate(Mean([b \in rows |-> RowLossTerm(lg[b], toks[b], mk[b])])),
         accuracy |-> Mean([b \in rows |-> RowAccuracyTerm(lg[b], toks[b], mk[b])])]

\* One call of the loss function on the inputs drawn in InitLoss.
CallLoss ==
    /\ pc = "loss"
    /\ result = <<>>
    /\ result' = <<cross_entropy_loss_and_accuracy(logits, tokens, mask)>>
    /\ UNCHANGED <<logits, tokens, mask>>
    /\ UNCHANGED trainerVars

\* ------------------------------------------------------------ the program
NoLossCall ==
    /\ logits = <<>>
    /\ tokens = <<>>
    /\ mask = <<>>
    /\ result = <<>>

\* The data source of n batches: batch i is identified by i.
DataSource(n) == [i \in 1..n |-> i]

Init ==
    /\ trainer_config \in TrainerConfig
    /\ mesh_arg \in {<<>>, <<CallerMesh>>}
    /\ checkpointer \in BOOLEAN
    /\ train_dataloader \in {DataSource(n) : n \in 0..MaxBatches}
    /\ pc = "new"
    /\ error = ""
    /\ self_mesh = <<>>
    /\ load_calls = 0
    /\ it = 0
    /\ step = <<>>
    /\ max_steps = <<>>
    /\ batch = <<>>
    /\ prev_step = 0
    /\ trace = <<>>
    /\ NoLossCall

Next ==
    \/ Construct
    \/ TrainBegin
    \/ ForNext
    \/ CapCheck
    \/ PrintPrev
    \/ TrainingStep
    \/ SaveCheckpoint
    \/ FinalCheckpoint
    \/ WaitUntilFinished
    \/ Export

Spec == Init /\ [][Next]_vars



\* ------------------------------------------- the loss function's inputs
Vocab == {0, 1}

\* The logits of one position, over the vocabulary.
LogitVectors == {<<0, 0>>, <<1, 0>>, <<0, 1>>}

Rows(S) == [1..SeqLen -> S]

\* A batch: every position has its target and its mask bit; the positions of
\* a batch share one logit vector.
InitLoss ==
    /\ tokens \in [1..BatchSize -> Rows(Vocab)]
    /\ \E v \in LogitVectors :
          logits = [b \in 1..BatchSize |-> [t \in 1..SeqLen |-> v]]
    /\ mask \in [1..BatchSize -> Rows({0, 1})] \cup {<<>>}
    /\ result = <<>>
    /\ trainer_config = [model_name |-> DefaultModelName, num_epochs |-> 1,
                         num_steps |-> <<>>, num_tpus |-> 4]
    /\ mesh_arg = <<>>
    /\ checkpointer = FALSE
    /\ train_dataloader = <<>>
    /\ pc = "loss"
    /\ error = ""
    /\ self_mesh = <<>>
    /\ load_calls = 0
    /\ it = 0
    /\ step = <<>>
    /\ max_steps = <<>>
    /\ batch = <<>>
    /\ prev_step = 0
    /\ trace = <<>>

NextLoss == CallLoss

SpecLoss == InitLoss /\ [][NextLoss]_vars

\* ------------------------------------------------- reading the trace
Calls(op) == {i \in 1..Len(trace) : trace[i].op = op}

IsTrainingStep(e) == e.op = "training_step"

\* The training steps that ran to completion.
StepsExecuted == Cardinality({i \in Calls("training_step") : trace[i].ok})

\* The training steps completed before the i-th event.
StepsBefore(i) ==
    Cardinality({j \in Calls("training_step") : j < i /\ trace[j].ok})

CollaboratorFailed == \E i \in 1..Len(trace) : ~trace[i].ok

NumBatches == Len(train_dataloader)

Min(a, b) == IF a <= b THEN a ELSE b

\* The loop of train() has been left by exhaustion or by break.
LoopExited == pc \in {"final", "wait", "export", "done"}

CapUnsetOrNonPositive ==
    \/ trainer_config.num_steps = <<>>
    \/ trainer_config.num_steps # <<>> /\ trainer_config.num_steps[1] <= 0

CapPositive ==
    trainer_config.num_steps # <<>> /\ trainer_config.num_steps[1] > 0

\* ---------------------------------------------------------------- claims

\* C1 (as claimed): with a checkpointer and no collaborator failing, train()
\* ends having called save_checkpoint once right after each executed step and
\* once more after the loop, S + 1 times for S executed steps, followed by
\* wait_until_finished, for every data source length including 0; without a
\* checkpointer save_checkpoint is never called.
C1_SavesPerStepPlusFinal ==
    /\ ~checkpointer => Calls("save_checkpoint") = {}
    /\ (checkpointer /\ pc \in {"done", "raised"} /\ ~CollaboratorFailed) =>
          /\ Cardinality(Calls("save_checkpoint")) = StepsExecuted + 1
          /\ \A i \in Calls("training_step") :
                i < Len(trace) /\ trace[i + 1].op = "save_checkpoint"
          /\ \E w \in Calls("wait_until_finished") :
                /\ w > 1
                /\ trace[w - 1].op = "save_checkpoint"
                /\ \A i \in Calls("save_checkpoint") : i < w

\* C2: a run of train() that does not fail calls save_model_to_hf exactly
\* once; the export is the last call of the run, so every training step and
\* every save_checkpoint precedes it, and with a checkpointer a returned
\* wait_until_finished precedes it as well.
C2_ExportOnceAfterCheckpointing ==
    /\ Cardinality(Calls("save_model_to_hf")) <= 1
    /\ \A i \in Calls("save_model_to_hf") :
          /\ i = Len(trace)
          /\ checkpointer =>
                \E w \in Calls("wait_until_finished") :
                   /\ w < i
                   /\ trace[w].ok
                   /\ \A c \in Calls("save_checkpoint") : c < w
    /\ pc = "done" =>
          \E i \in Calls("save_model_to_hf") : trace[i].ok

\* C2 witness: a run with a checkpointer and two steps has exported.
C2_Witness ==
    /\ pc = "done"
    /\ checkpointer
    /\ StepsExecuted >= 2
    /\ Calls("save_model_to_hf") # {}

\* C3 (as claimed): with num_steps unset, zero or negative, the loop is left
\* only when the source is exhausted, and a run that completes has executed
\* N steps per configured epoch for a source of N batches.
C3_UncappedConsumesAll ==
    CapUnsetOrNonPositive =>
       /\ LoopExited => it = NumBatches
       /\ pc = "done" => StepsExecuted = NumBatches * trainer_config.num_epochs

\* C4: with a positive cap C and a source of N batches, the k-th training
\* step is on the k-th batch of the source, no step has an index >= C, and
\* once the loop is left min(C, N) steps have been executed.
C4_CappedSteps ==
    CapPositive =>
       LET C == trainer_config.num_steps[1]
           steps == SelectSeq(trace, IsTrainingStep)
       IN  /\ \A k \in 1..Len(steps) :
                 /\ steps[k].arg = k
                 /\ steps[k].batch = train_dataloader[k]
                 /\ steps[k].arg - 1 < C
           /\ LoopExited => StepsExecuted = Min(C, NumBatches)

\* C4 witness: the cap ended the loop with batches left over, after two steps.
C4_Witness ==
    /\ CapPositive
    /\ pc = "done"
    /\ trainer_config.num_steps[1] < NumBatches
    /\ StepsExecuted = trainer_config.num_steps[1]
    /\ StepsExecuted >= 2

BadConfigAsClaimed ==
    \/ trainer_config.model_name = ""
    \/ trainer_config.num_tpus \notin {4, 8}

BadConfig ==
    \/ trainer_config.model_name = ""
    \/ mesh_arg = <<>> /\ trainer_config.num_tpus \notin {4, 8}

ConstructionRefused ==
    /\ pc = "init_raised"
    /\ error \in {"AssertionError", "ValueError"}
    /\ load_calls = 0
    /\ self_mesh = <<>>

\* C5 (as claimed): an empty model name or a device count other than 4 or 8
\* makes construction raise before load_model is called, whatever the other
\* arguments are, a caller's mesh included.
C5_BadConfigAlwaysRefused ==
    (pc # "new" /\ BadConfigAsClaimed) => ConstructionRefused

\* C5 (amended): an empty model name, or a device count other than 4 or 8
\* when the caller passes no mesh, makes construction raise before load_model
\* is called; no Trainer is produced.
C5_BadConfigRefused ==
    (pc # "new" /\ BadConfig) => ConstructionRefused

\* C5 witness: construction without a mesh refused an unsupported count.
C5_Witness ==
    /\ pc = "init_raised"
    /\ error = "ValueError"
    /\ trainer_config.model_name # ""
    /\ mesh_arg = <<>>
    /\ trainer_config.num_tpus \notin {4, 8}
    /\ load_calls = 0

\* C6: a collaborator call that raises is the last thing train() does: the
\* exception leaves train(), and no batch is fetched, no step taken, no
\* checkpoint saved or awaited, no export made and no call repeated after it.
C6_FailureAborts ==
    \A i \in 1..Len(trace) :
       ~trace[i].ok =>
          /\ i = Len(trace)
          /\ pc = "raised"
          /\ error = trace[i].op

\* C6 witness: save_checkpoint raised after a completed step.
C6_Witness ==
    /\ pc = "raised"
    /\ error = "save_checkpoint"
    /\ StepsExecuted >= 1
    /\ ~trace[Len(trace)].ok
    /\ Calls("save_model_to_hf") = {}

\* A row of the batch whose mask is zero at every position.
FullyMasked(b) == mask # <<>> /\ \A t \in 1..SeqLen : mask[b][t] = 0

Finite(a) == a.kind = "num" /\ a.big = 0

\* The batch means with the term of every fully masked row set to 0.
MeanWithMaskedRowsZero(Term(_, _, _)) ==
    Mean([b \in 1..BatchSize |->
            IF FullyMasked(b) THEN Num(0, 0)
            ELSE Term(logits[b], tokens[b], mask[b])])

\* C7: when the mask is all zeros on some row, that row's per-sequence term
\* is exactly 0 in the loss and in the accuracy (a zero sum over the floor,
\* not over 0), and the returned loss and accuracy are finite and equal the
\* batch means taken with that row's term set to 0.
C7_MaskedRowContributesZero ==
    (result # <<>> /\ \E b \in 1..BatchSize : FullyMasked(b)) =>
       /\ \A b \in 1..BatchSize :
             FullyMasked(b) =>
                /\ RowLossTerm(logits[b], tokens[b], mask[b]) = Num(0, 0)
                /\ RowAccuracyTerm(logits[b], tokens[b], mask[b]) = Num(0, 0)
       /\ Finite(result[1].loss)
       /\ Finite(result[1].accuracy)
       /\ result[1].loss = Negate(MeanWithMaskedRowsZero(RowLossTerm))
       /\ result[1].accuracy = MeanWithMaskedRowsZero(RowAccuracyTerm)

\* C7 witness: a returned result for a batch with a fully masked row next to
\* a row that counts, with a loss and an accuracy other than 0.
C7_Witness ==
    /\ result # <<>>
    /\ \E b \in 1..BatchSize : FullyMasked(b)
    /\ \E b \in 1..BatchSize : ~FullyMasked(b)
    /\ result[1].loss.fin > 0
    /\ result[1].accuracy.fin > 0

\* C8 (as claimed): the metrics of step N are printed only after
\* training_step has been called for step N + 1.
C8_PrintAfterNextDispatch ==
    \A i \in Calls("print") :
       \E j \in Calls("training_step") :
          j < i /\ trace[j].arg = trace[i].arg + 1

\* C9 (as claimed): every save_checkpoint call carries as its tag the number
\* of training steps completed when it is made, the final save included,
\* whether the loop ended by exhaustion or by the cap.
C9_TagIsStepsCompleted ==
    \A i \in Calls("save_checkpoint") : trace[i].arg = StepsBefore(i)

\* C10 (as claimed): a run that completes has printed the metrics of each
\* executed step 1..S exactly once, the last step included.
C10_EveryStepReportedOnce ==
    pc = "done" =>
       \A k \in 1..StepsExecuted :
          Cardinality({i \in Calls("print") : trace[i].arg = k}) = 1

====
